---- MODULE Spec2Model ----
(***************************************************************************)
(* Model of tanzania_water_pump/src/preprocess.py: the feature transformer *)
(* preprocess_data with its helpers distance and topn, and the label       *)
(* encoder preprocess_y.                                                   *)
(*                                                                         *)
(* A DataFrame is a sequence of rows (records); position i is row i.       *)
(* float64 values are exact rationals <<num, den>> in lowest terms with    *)
(* den > 0; NaN is <<0, 0>>.  A missing entry of an object column is the   *)
(* marker NA.  Coordinates of the input are given in tenths of a degree.   *)
(***************************************************************************)
EXTENDS Integers, Sequences, FiniteSets, TLC

VARIABLES df, pc, out, y, call

vars == <<df, pc, out, y, call>>

\* ------------------------------------------------------------------ bounds

MaxRows == 3
MaxN == 3
MaxDistinct == 12
MaxExtra == 2

\* --------------------------------------------------------- float64 values

NaN == <<0, 0>>

NA == "<NA>"

Abs(a) == IF a < 0 THEN -a ELSE a

RECURSIVE GCD(_, _)
GCD(a, b) == IF b = 0 THEN a ELSE GCD(b, a % b)

\* Division the way C and numpy truncate it: toward zero.
TruncDiv(a, b) == IF a >= 0 THEN a \div b ELSE -((-a) \div b)

Rat(n, d) ==
    IF d = 0 THEN NaN
    ELSE LET g == GCD(Abs(n), Abs(d))
             s == IF d < 0 THEN -1 ELSE 1
         IN  <<s * (n \div g), s * (d \div g)>>

IsNaN(q) == q[2] = 0

RatLess(p, q) == p[1] * q[2] < q[1] * p[2]

\* ------------------------------------------------------- column primitives

Rows(d) == 1..Len(d)

RECURSIVE SumUpTo(_, _, _, _)
\* Sum of column col over the first k rows whose key column equals g.
SumUpTo(d, key, g, k) ==
    IF k = 0 THEN [sum |-> 0, count |-> 0]
    ELSE LET r == SumUpTo(d, key, g, k - 1)
         IN  IF d[k][key[1]] = g
             THEN [sum |-> r.sum + d[k][key[2]], count |-> r.count + 1]
             ELSE r

\* df.groupby(by)[col].mean().to_dict()
GroupMean(d, by, col) ==
    [g \in {d[i][by] : i \in Rows(d)} |->
        LET r == SumUpTo(d, <<by, col>>, g, Len(d))
        IN  Rat(r.sum, r.count)]

\* A conversion that rounds to the nearest integer instead.
AsTypeInt_nearest(q) == (2 * q[1] + q[2]) \div (2 * q[2])

\* .astype(int) of a float: the fractional part is discarded.
AsTypeInt(q) == TruncDiv(q[1], q[2])

\* ------------------------------------------------------------- distance

\* float64 trigonometry is carried out in fixed point: a real r is the
\* integer r * Scale, every product is rescaled by Scale.
Scale == 10000

\* p = 0.017453292519943295 rad per degree, times 10^7.
P == 174533

\* (q - ref) * p, for q = <<num, den>> and ref in tenths of a degree.
Radians(q, ref) ==
    TruncDiv((q[1] - ref * q[2]) * P, q[2] * (100000000 \div Scale))

Mul(a, b) == TruncDiv(a * b, Scale)

\* np.cos: the series 1 - x^2/2! + x^4/4! - x^6/6!.
Cos(x) ==
    LET x2 == Mul(x, x)
        x4 == Mul(x2, x2)
        x6 == Mul(x4, x2)
    IN  Scale - x2 \div 2 + x4 \div 24 - x6 \div 720

RECURSIVE SqrtSearch(_, _, _)
SqrtSearch(v, lo, hi) ==
    IF lo >= hi THEN lo
    ELSE LET mid == (lo + hi + 1) \div 2
         IN  IF mid * mid <= v THEN SqrtSearch(v, mid, hi)
             ELSE SqrtSearch(v, lo, mid - 1)

\* np.sqrt: NaN below zero.
Sqrt(h) == IF h < 0 THEN -1 ELSE SqrtSearch(h * Scale, 0, 2 * Scale)

\* np.arcsin: the series x + x^3/6 + 3x^5/40 + 5x^7/112; NaN outside [-1, 1].
ArcSin(x) ==
    LET x2 == Mul(x, x)
        x3 == Mul(x2, x)
        x5 == Mul(x3, x2)
        x7 == Mul(x5, x2)
    IN  x + x3 \div 6 + (3 * x5) \div 40 + (5 * x7) \div 112

Haversine(latitude, longitude, lat, lon) ==
    LET lat_diff == Radians(<<latitude, 1>>, lat)
        lon_diff == Radians(longitude, lon)
        hav == Scale \div 2 - Cos(lat_diff) \div 2
               + Mul(Mul(Cos(Radians(<<lat, 1>>, 0)),
                         Cos(Radians(<<latitude, 1>>, 0))),
                     Scale - Cos(lon_diff)) \div 2
        root == Sqrt(hav)
    IN  IF root < 0 \/ root > Scale THEN NaN
        ELSE Rat(12742 * ArcSin(root), Scale)

\* distance(df, lat, lon): one value per row, in kilometres.
distance(x, lat, lon) ==
    [i \in Rows(x) |-> Haversine(x[i].latitude, x[i].longitude, lat, lon)]

CenterLat == -65
CenterLon == 375

\* ----------------------------------------------------------------- topn

RECURSIVE CountUpTo(_, _, _)
CountUpTo(ser, v, k) ==
    IF k = 0 THEN 0
    ELSE CountUpTo(ser, v, k - 1) + (IF ser[k] = v THEN 1 ELSE 0)

\* ser.value_counts(): the count of every value that occurs; missing entries
\* are not counted (dropna defaults to True).
value_counts(ser) ==
    [v \in {ser[i] : i \in DOMAIN ser} \ {NA} |-> CountUpTo(ser, v, Len(ser))]

\* The values that come before position m however ties are ordered: at most
\* m values count at least as much.
Leading(counts, m) ==
    {v \in DOMAIN counts :
        Cardinality({w \in DOMAIN counts : counts[w] >= counts[v]}) <= m}

\* The values that come before position m under some order of the ties but
\* not under every one.
Tied(counts, m) ==
    {v \in DOMAIN counts :
        Cardinality({w \in DOMAIN counts : counts[w] > counts[v]}) < m}
    \ Leading(counts, m)

\* The possible sets of the first m values of counts.index.
Prefix(counts, m) ==
    {Leading(counts, m) \cup X :
        X \in {Z \in SUBSET Tied(counts, m) :
                 Cardinality(Z) = m - Cardinality(Leading(counts, m))}}

Min(a, b) == IF a < b THEN a ELSE b

\* A slice that is one too long: counts.index[:n + 1].
TopIndex_one_more(counts, n) ==
    Prefix(counts, Min(n + 1, Cardinality(DOMAIN counts)))

\* A cut that keeps every value tied with the n-th one.
TopIndex_with_ties(counts, n) ==
    LET m == Min(n, Cardinality(DOMAIN counts))
    IN  {Leading(counts, m) \cup Tied(counts, m)}

\* counts.index[:n].  value_counts sorts by descending count; the order of
\* values with equal counts is the library's, so every choice among the
\* values tied at the cut is possible.
TopIndex(counts, n) == Prefix(counts, Min(n, Cardinality(DOMAIN counts)))

\* ser.where(ser.isin(index), default)
Where(ser, index, default) ==
    [i \in DOMAIN ser |-> IF ser[i] \in index THEN ser[i] ELSE default]

\* topn(ser, n, default): the results the call can return.
topn(ser, n, default) ==
    {Where(ser, index, default) : index \in TopIndex(value_counts(ser), n)}

\* ------------------------------------------------------ column transforms

fillna(ser, v) == [i \in DOMAIN ser |-> IF ser[i] = NA THEN v ELSE ser[i]]

\* ser.replace(mapping): mapping is a function on the values to rewrite.
replace(ser, mapping) ==
    [i \in DOMAIN ser |->
        IF ser[i] \in DOMAIN mapping THEN mapping[ser[i]] ELSE ser[i]]

Column(d, c) == [i \in Rows(d) |-> d[i][c]]

Digit == [c \in {"0", "1", "2", "3", "4", "5", "6", "7", "8", "9"} |->
            CASE c = "0" -> 0 [] c = "1" -> 1 [] c = "2" -> 2 [] c = "3" -> 3
              [] c = "4" -> 4 [] c = "5" -> 5 [] c = "6" -> 6 [] c = "7" -> 7
              [] c = "8" -> 8 [] c = "9" -> 9]

RECURSIVE FirstField(_, _)
\* s.split(sep)[0]: the characters before the first separator.
FirstField(s, sep) ==
    IF s = <<>> \/ Head(s) = sep THEN <<>>
    ELSE <<Head(s)>> \o FirstField(Tail(s), sep)

RECURSIVE ParseInt(_)
\* int(s) for a string of decimal digits.
ParseInt(s) ==
    IF s = <<>> THEN 0
    ELSE 10 * ParseInt(SubSeq(s, 1, Len(s) - 1)) + Digit[s[Len(s)]]

BoolAsInt(b) == IF b = "True" THEN 1 ELSE 0

TopFunders == 10
TopInstallers == 10

RatAdd(p, q) == Rat(p[1] * q[2] + q[1] * p[2], p[2] * q[2])

RECURSIVE RatSum(_, _)
RatSum(col, S) ==
    IF S = {} THEN <<0, 1>>
    ELSE LET j == CHOOSE k \in S : TRUE
         IN  RatAdd(col[j], RatSum(col, S \ {j}))

RECURSIVE ImputeInPlace(_, _, _)
\* Rows k.. imputed one after the other, each from the column as it then is.
ImputeInPlace(d, col, k) ==
    IF k > Len(d) THEN col
    ELSE LET S == {j \in Rows(d) : d[j].region_code = d[k].region_code}
             sum == RatSum(col, S)
             mean == Rat(sum[1], sum[2] * Cardinality(S))
         IN  ImputeInPlace(d, IF d[k].longitude = 0
                                THEN [col EXCEPT ![k] = mean] ELSE col, k + 1)

\* An imputation that rewrites the column row by row.
longitude_in_place(d) ==
    ImputeInPlace(d, [i \in Rows(d) |-> Rat(d[i].longitude, 1)], 1)

\* longitude = np.where(df.longitude == 0, region mean, df.longitude)
longitude(d) ==
    LET means == GroupMean(d, "region_code", "longitude")
    IN  [i \in Rows(d) |->
            IF d[i].longitude = 0 THEN means[d[i].region_code]
            ELSE Rat(d[i].longitude, 1)]

\* gps_height = np.where(df.gps_height == 0, basin mean, df.gps_height)
gps_height(d) ==
    LET means == GroupMean(d, "basin", "gps_height")
    IN  [i \in Rows(d) |->
            IF d[i].gps_height = 0 THEN means[d[i].basin]
            ELSE Rat(d[i].gps_height, 1)]

\* A distance taken from the frame as it was given.
center_distance_raw(d) ==
    distance([i \in Rows(d) |-> [d[i] EXCEPT !.longitude = Rat(d[i].longitude, 1)]],
             CenterLat, CenterLon)

\* center_distance = lambda x: distance(x, -6.5, 37.5); x is the frame in
\* which the columns assigned before it are already replaced.
center_distance(d) ==
    LET lon == longitude(d)
        gps == gps_height(d)
        x == [i \in Rows(d) |->
                [d[i] EXCEPT !.longitude = lon[i], !.gps_height = gps[i]]]
    IN  distance(x, CenterLat, CenterLon)

\* population = np.where(df.population in {0, 1}, int(basin mean), df.population)
population(d) ==
    LET means == GroupMean(d, "basin", "population")
    IN  [i \in Rows(d) |->
            IF d[i].population = 0 \/ d[i].population = 1
            THEN AsTypeInt(means[d[i].basin])
            ELSE d[i].population]

\* age = year(date_recorded) - construction_year.replace(0, NaN)
age(d) ==
    [i \in Rows(d) |->
        IF d[i].construction_year = 0 THEN NaN
        ELSE Rat(ParseInt(FirstField(d[i].date_recorded, "-"))
                 - d[i].construction_year, 1)]

RECURSIVE SumDefined(_, _)
\* Sum and count of the entries of ser[1..k] that are not NaN.
SumDefined(ser, k) ==
    IF k = 0 THEN [sum |-> 0, count |-> 0]
    ELSE LET r == SumDefined(ser, k - 1)
         IN  IF IsNaN(ser[k]) THEN r
             ELSE [sum |-> r.sum + ser[k][1], count |-> r.count + 1]

\* Series.mean() of a column of whole numbers and NaN: NaN is skipped, and
\* the mean of no value is NaN.
Mean(ser) ==
    LET r == SumDefined(ser, Len(ser))
    IN  Rat(r.sum, r.count)

\* The second assign:
\* age = np.where((_df.age < 0) | _df.age.isna(), _df.age.mean(), _df.age)
assign_age(x) ==
    LET a == Column(x, "age")
        mean == Mean(a)
    IN  [i \in Rows(x) |->
            [x[i] EXCEPT !.age = IF RatLess(a[i], <<0, 1>>) \/ IsNaN(a[i])
                                 THEN mean ELSE a[i]]]

quantity(d) == replace(Column(d, "quantity"), [v \in {"unknown"} |-> "dry"])

public_meeting(d) ==
    LET c == fillna(Column(d, "public_meeting"), "False")
    IN  [i \in Rows(d) |-> BoolAsInt(c[i])]

permit(d) ==
    LET c == fillna(Column(d, "permit"), "False")
    IN  [i \in Rows(d) |-> BoolAsInt(c[i])]

\* The column handed to topn for funder.
funder_filled(d) == fillna(Column(d, "funder"), "Unknown")

\* The column handed to topn for installer.
installer_filled(d) ==
    replace(fillna(Column(d, "installer"), "Unknown"), [v \in {"0"} |-> "Unknown"])

funder(d) == topn(funder_filled(d), TopFunders, "other")

\* A pipeline that rewrites "0" only after the collapse.
installer_late(d) ==
    {replace(r, [v \in {"0"} |-> "Unknown"]) :
        r \in topn(fillna(Column(d, "installer"), "Unknown"), TopInstallers, "other")}

installer(d) == topn(installer_filled(d), TopInstallers, "other")

ground_water(d) ==
    replace(Column(d, "source_class"),
            [v \in {"groundwater", "surface", "unknown"} |->
                IF v = "surface" THEN 0 ELSE 1])

\* The first assign: the frames it can return (one per way the two topn
\* calls break their ties).  Row i takes entry i of every assigned column.
assign(d) ==
    LET c == [longitude       |-> longitude(d),
              gps_height      |-> gps_height(d),
              center_distance |-> center_distance(d),
              population      |-> population(d),
              age             |-> age(d),
              quantity        |-> quantity(d),
              public_meeting  |-> public_meeting(d),
              permit          |-> permit(d),
              ground_water    |-> ground_water(d)]
    IN  {[i \in Rows(d) |->
            [center_distance |-> c.center_distance[i],
             age             |-> c.age[i],
             ground_water    |-> c.ground_water[i]]
            @@ [d[i] EXCEPT !.longitude      = c.longitude[i],
                            !.gps_height     = c.gps_height[i],
                            !.population     = c.population[i],
                            !.quantity       = c.quantity[i],
                            !.public_meeting = c.public_meeting[i],
                            !.permit         = c.permit[i],
                            !.funder         = f[i],
                            !.installer      = ins[i]]] :
         f \in funder(d), ins \in installer(d)}

\* Those of the dropped columns that the model carries.
Dropped == {"region_code", "date_recorded", "construction_year", "source_class"}

\* .drop(columns=[...])
drop(x) == [i \in Rows(x) |-> [c \in (DOMAIN x[i]) \ Dropped |-> x[i][c]]]

\* A pipeline that drops the rows without an age instead of imputing them.
preprocess_data_dropna(d) ==
    {drop(assign_age(SelectSeq(x, LAMBDA r : ~IsNaN(r.age)))) : x \in assign(d)}

\* preprocess_data(df): the frames the call can return.
preprocess_data(d) == {drop(assign_age(x)) : x \in assign(d)}

LabelCode == [l \in {"functional", "non functional", "functional needs repair"} |->
                CASE l = "functional" -> 2
                  [] l = "non functional" -> 0
                  [] l = "functional needs repair" -> 1]

\* An encoding that gives two labels the same code.
preprocess_y_collide(d) ==
    replace(Column(d, "status_group"),
            [l \in DOMAIN LabelCode |-> IF l = "non functional" THEN 0 ELSE 2])

\* preprocess_y(df): status_group with the three labels replaced by codes.
preprocess_y(d) == replace(Column(d, "status_group"), LabelCode)

\* --------------------------------------------------------------- inputs

Date2011 == <<"2", "0", "1", "1", "-", "0", "3", "-", "1", "5">>
Date2013 == <<"2", "0", "1", "3", "-", "0", "1", "-", "2", "0">>

\* A well-formed census row; the input families below vary some of its
\* columns and keep the others.
BaseRow ==
    [latitude          |-> -65,
     longitude         |-> 375,
     gps_height        |-> 120,
     region_code       |-> 1,
     basin             |-> "Rufiji",
     population        |-> 50,
     date_recorded     |-> Date2011,
     construction_year |-> 2000,
     quantity          |-> "enough",
     public_meeting    |-> "True",
     permit            |-> "True",
     funder            |-> "f1",
     installer         |-> "f1",
     source_class      |-> "groundwater",
     status_group      |-> "functional"]

\* Every frame of 1..MaxRows rows drawn from a set of rows.
Frames(rows) == UNION {[1..k -> rows] : k \in 1..MaxRows}

GeoRows ==
    {[BaseRow EXCEPT !.latitude = la, !.longitude = lo, !.region_code = rc] :
        la \in {-65, -30}, lo \in {0, 350, 375}, rc \in {1, 2}}

PopulationRows ==
    {[BaseRow EXCEPT !.basin = b, !.population = po] :
        b \in {"Rufiji", "Pangani"}, po \in {0, 1, 7}}

HeightRows ==
    {[BaseRow EXCEPT !.basin = b, !.gps_height = h] :
        b \in {"Rufiji", "Pangani"}, h \in {0, 90, -20}}

AgeRows ==
    {[BaseRow EXCEPT !.date_recorded = dr, !.construction_year = cy] :
        dr \in {Date2011, Date2013}, cy \in {0, 2000, 2012, 2013}}

LabelRows ==
    {[BaseRow EXCEPT !.status_group = sg, !.quantity = q] :
        sg \in {"functional", "non functional", "functional needs repair"},
        q \in {"unknown", "dry", "enough"}}

FlagRows ==
    {[BaseRow EXCEPT !.public_meeting = pm, !.permit = pe] :
        pm \in {NA, "True", "False"}, pe \in {NA, "True", "False"}}

SourceRows ==
    {[BaseRow EXCEPT !.source_class = sc] :
        sc \in {"groundwater", "surface", "unknown"}}

FunderRows ==
    {[BaseRow EXCEPT !.funder = f] : f \in {"a", "b", "c", "other", NA}}

InstallerRows ==
    {[BaseRow EXCEPT !.installer = f] : f \in {"a", "b", "0", "Unknown", NA}}

\* The frame whose funder column is a, a, a, b, b, c.
ExampleFrame ==
    [i \in 1..6 |->
        [BaseRow EXCEPT !.funder = IF i <= 3 THEN "a" ELSE IF i <= 5 THEN "b" ELSE "c"]]

Name(j) == "f" \o ToString(j)

\* How often the j-th name occurs in a wide frame: the first names three
\* times, the next ones twice, the others once.
Times(j) == IF j <= 4 THEN 3 ELSE IF j <= 8 THEN 2 ELSE 1

RECURSIVE Names(_, _)
Names(j, k) ==
    IF j > k THEN <<>> ELSE [i \in 1..Times(j) |-> Name(j)] \o Names(j + 1, k)

\* Frames with many distinct names in one of the two free-text columns: the
\* names f1..fk, then up to MaxExtra further rows.
WideFrames ==
    LET extras == UNION {[1..e -> {"f9", "other", "0", "Unknown", NA}] : e \in 0..MaxExtra}
    IN  {LET col == Names(1, k) \o x
         IN  [i \in 1..Len(col) |-> [BaseRow EXCEPT ![c] = col[i]]] :
         k \in (MaxDistinct - 2)..MaxDistinct, x \in extras,
         c \in {"funder", "installer"}}

NoCall == [ser |-> <<>>, n |-> 0, default |-> "", ret |-> <<>>]

InitAt(frames) ==
    /\ df \in frames
    /\ pc = "start"
    /\ out = <<>>
    /\ y = <<>>
    /\ call = NoCall

ImputeFrames ==
    Frames(GeoRows) \cup Frames(PopulationRows) \cup Frames(HeightRows)
AgeFrames == Frames(AgeRows)
LabelFrames == Frames(LabelRows) \cup Frames(FlagRows) \cup Frames(SourceRows)
CategoryFrames ==
    Frames(FunderRows) \cup Frames(InstallerRows) \cup {ExampleFrame} \cup WideFrames

Init == InitAt(ImputeFrames \cup AgeFrames \cup LabelFrames \cup CategoryFrames)

\* -------------------------------------------------------------- actions

\* A caller runs preprocess_data on the frame.
PreprocessData ==
    /\ pc = "start"
    /\ \E o \in preprocess_data(df) : out' = o
    /\ pc' = "preprocess_data"
    /\ UNCHANGED <<df, y, call>>

\* A caller runs preprocess_y on the frame.
PreprocessY ==
    /\ pc = "start"
    /\ y' = preprocess_y(df)
    /\ pc' = "preprocess_y"
    /\ UNCHANGED <<df, out, call>>

\* A caller runs topn on the funder column of the frame.
TopN ==
    /\ pc = "start"
    /\ \E n \in 0..MaxN, default \in {"other", "rest"} :
          \E r \in topn(Column(df, "funder"), n, default) :
             call' = [ser |-> Column(df, "funder"), n |-> n,
                      default |-> default, ret |-> r]
    /\ pc' = "topn"
    /\ UNCHANGED <<df, out, y>>

Next == PreprocessData \/ PreprocessY \/ TopN

Spec == Init /\ [][Next]_vars

SpecImpute == InitAt(ImputeFrames) /\ [][Next]_vars

SpecAge == InitAt(AgeFrames) /\ [][Next]_vars

SpecLabel == InitAt(LabelFrames) /\ [][Next]_vars

SpecCategory == InitAt(CategoryFrames) /\ [][Next]_vars

\* ------------------------------------------------------------ properties

Returned == pc = "preprocess_data"

RECURSIVE SetSum(_, _)
\* The sum of f over the set S of rows.
SetSum(S, f) ==
    IF S = {} THEN 0
    ELSE LET j == CHOOSE k \in S : TRUE
         IN  f[j] + SetSum(S \ {j}, f)

\* The rows of d that share row i's value of column by.
Group(d, by, i) == {j \in Rows(d) : d[j][by] = d[i][by]}

\* q is the mean of column col of d over the rows S.
IsMeanOver(q, d, col, S) ==
    /\ q[2] > 0
    /\ q[1] * Cardinality(S) = SetSum(S, Column(d, col)) * q[2]

\* C1: preprocess_data returns as many rows as it is given and its i-th row
\* is derived from the i-th input row: the columns it keeps are that row's,
\* and the row-wise rewrites are those of that row's values.
C1_RowsPreserved ==
    Returned =>
        /\ Len(out) = Len(df)
        /\ \A i \in Rows(df) :
              /\ out[i].latitude = df[i].latitude
              /\ out[i].basin = df[i].basin
              /\ out[i].status_group = df[i].status_group
              /\ out[i].quantity =
                    (IF df[i].quantity = "unknown" THEN "dry" ELSE df[i].quantity)
              /\ out[i].ground_water =
                    (IF df[i].source_class = "surface" THEN 0 ELSE 1)
              /\ out[i].public_meeting =
                    (IF df[i].public_meeting = "True" THEN 1 ELSE 0)
              /\ out[i].permit = (IF df[i].permit = "True" THEN 1 ELSE 0)

\* A call returned for a frame of three rows of which one has no
\* construction year and another has one.
C1_Witness ==
    /\ Returned
    /\ Len(df) = 3
    /\ df[1].construction_year = 0
    /\ df[2].construction_year # 0
    /\ Len(out) = 3

\* C2: after preprocess_data every age is defined and not negative.
C2_AgeNonNegative ==
    Returned => \A i \in Rows(out) :
        ~IsNaN(out[i].age) /\ ~RatLess(out[i].age, <<0, 1>>)

\* The rows whose raw age is defined and not negative.
ValidAge(d) ==
    {i \in Rows(d) : ~IsNaN(age(d)[i]) /\ age(d)[i][1] >= 0}

\* C3: a row whose raw age is negative or undefined gets the mean of the
\* valid raw ages only (undefined when there is none); a row with a valid
\* raw age keeps it.
C3_AgeFromValidMean ==
    Returned => \A i \in Rows(df) :
        IF i \in ValidAge(df) THEN out[i].age = age(df)[i]
        ELSE IF ValidAge(df) = {} THEN IsNaN(out[i].age)
        ELSE /\ out[i].age[2] > 0
             /\ out[i].age[1] * Cardinality(ValidAge(df))
                   = SetSum(ValidAge(df), [j \in Rows(df) |-> age(df)[j][1]])
                     * out[i].age[2]

Sentinel(v) == v = 0 \/ v = 1

\* C4 as stated: a row with population 0 or 1 gets the basin's mean
\* population rounded to the nearest integer, any other row keeps its own.
C4_PopulationRounded ==
    Returned => \A i \in Rows(df) :
        LET S == Group(df, "basin", i)
            sum == SetSum(S, Column(df, "population"))
            n == Cardinality(S)
        IN  IF Sentinel(df[i].population)
            THEN 2 * Abs(out[i].population * n - sum) <= n
            ELSE out[i].population = df[i].population

\* C4, amended: a row with population 0 or 1 gets the basin's mean
\* population with its fractional part discarded (2.67 gives 2), any other
\* row keeps its own.
C4_PopulationTruncated ==
    Returned => \A i \in Rows(df) :
        LET S == Group(df, "basin", i)
            sum == SetSum(S, Column(df, "population"))
            n == Cardinality(S)
        IN  IF Sentinel(df[i].population)
            THEN /\ out[i].population * n <= sum
                 /\ sum < (out[i].population + 1) * n
            ELSE out[i].population = df[i].population

\* A sentinel row was imputed from a basin whose mean has a fractional part
\* above one half.
C4_Witness ==
    /\ Returned
    /\ \E i \in Rows(df) :
          LET S == Group(df, "basin", i)
              sum == SetSum(S, Column(df, "population"))
              n == Cardinality(S)
          IN  /\ Sentinel(df[i].population)
              /\ 2 * (sum % n) > n
              /\ out[i].population = sum \div n

\* The distinct values of a column; a missing entry is not a value.
Vals(ser) == {ser[i] : i \in DOMAIN ser} \ {NA}

\* How many entries of ser are v.
Occurs(ser, v) == Cardinality({i \in DOMAIN ser : ser[i] = v})

\* T is a set of the n most frequent distinct values of ser (all of them
\* when there are fewer than n).
IsTop(T, ser, n) ==
    /\ T \subseteq Vals(ser)
    /\ Cardinality(T) = Min(n, Cardinality(Vals(ser)))
    /\ \A a \in T : \A b \in Vals(ser) \ T : Occurs(ser, a) >= Occurs(ser, b)

\* The values of ser that some position of ret still holds.
Kept(ser, ret) == {ser[i] : i \in {j \in DOMAIN ser : ret[j] = ser[j]}} \ {NA}

\* Position i holds ser[i] when ser[i] is one of the n most frequent values
\* and default otherwise.
TopKept(c) ==
    /\ Len(c.ret) = Len(c.ser)
    /\ \E T \in {Kept(c.ser, c.ret), Kept(c.ser, c.ret) \ {c.default}} :
          /\ IsTop(T, c.ser, c.n)
          /\ \A i \in DOMAIN c.ser :
                c.ret[i] = (IF c.ser[i] \in T THEN c.ser[i] ELSE c.default)

ExampleCall(c) ==
    /\ c.ser = <<"a", "a", "a", "b", "b", "c">>
    /\ c.n = 2
    /\ c.default = "other"

\* C5 as stated: topn keeps the n most frequent values and writes default
\* elsewhere; with fewer than n distinct values the column comes back as it
\* was given.
C5_TopnAsStated ==
    pc = "topn" =>
        /\ TopKept(call)
        /\ Cardinality(Vals(call.ser)) < call.n => call.ret = call.ser
        /\ ExampleCall(call) => call.ret = <<"a", "a", "a", "b", "b", "other">>

\* C5, amended: topn keeps the n most frequent values and writes default
\* elsewhere; with fewer than n distinct values every entry that is not
\* missing is kept, and a missing entry is never counted and always becomes
\* default.
C5_TopnKeepsPresent ==
    pc = "topn" =>
        /\ TopKept(call)
        /\ Cardinality(Vals(call.ser)) < call.n =>
              \A i \in DOMAIN call.ser :
                 call.ret[i] = (IF call.ser[i] = NA THEN call.default ELSE call.ser[i])
        /\ \A i \in DOMAIN call.ser : call.ser[i] = NA => call.ret[i] = call.default
        /\ ExampleCall(call) => call.ret = <<"a", "a", "a", "b", "b", "other">>

\* topn returned for the example a, a, a, b, b, c with n = 2.
C5_Witness == pc = "topn" /\ ExampleCall(call) /\ call.ret[6] = "other"

Distinct(col) == Cardinality({out[i][col] : i \in Rows(out)})

\* C6: the returned funder and installer columns hold at most 11 distinct
\* values each.
C6_AtMostElevenCategories ==
    Returned => Distinct("funder") <= 11 /\ Distinct("installer") <= 11

\* A frame whose funder column has the label "other", more than eleven
\* names and a tie at the tenth rank came back with eleven categories.
C6_Witness ==
    /\ Returned
    /\ Distinct("funder") = 11
    /\ \E i \in Rows(df) : df[i].funder = "other"
    /\ Cardinality(Vals(Column(df, "funder"))) > 11
    /\ Cardinality(TopIndex(value_counts(Column(df, "funder")), 10)) > 1

\* The rows whose installer is missing, "0" or "Unknown".
UnknownRows == {i \in Rows(df) : df[i].installer \in {NA, "0", "Unknown"}}

\* The other installers that occur at least k times.
NamedAtLeast(k) ==
    {v \in Vals(Column(df, "installer")) \ {"0", "Unknown"} :
        Occurs(Column(df, "installer"), v) >= k}

\* C7: missing, "0" and "Unknown" installers are ranked as the one category
\* "Unknown", by their joint count: they stay "Unknown" when fewer than ten
\* other installers occur at least as often, they all become "other" when
\* ten others occur more often, and no returned installer is "0" or missing.
C7_UnknownMergedBeforeRanking ==
    Returned =>
        /\ \A i \in Rows(out) : out[i].installer \notin {"0", NA}
        /\ \A i \in UnknownRows : out[i].installer \in {"Unknown", "other"}
        /\ \A i, j \in UnknownRows : out[i].installer = out[j].installer
        /\ Cardinality(NamedAtLeast(Cardinality(UnknownRows))) < 10
              => \A i \in UnknownRows : out[i].installer = "Unknown"
        /\ Cardinality(NamedAtLeast(Cardinality(UnknownRows) + 1)) >= 10
              => \A i \in UnknownRows : out[i].installer = "other"

\* A missing and a "0" installer stayed "Unknown" by their joint count in a
\* frame where each of them alone ties with more installers than fit.
C7_Witness ==
    /\ Returned
    /\ \E i, j \in UnknownRows :
          /\ df[i].installer = NA
          /\ df[j].installer = "0"
          /\ out[i].installer = "Unknown"
          /\ out[j].installer = "Unknown"
    /\ Cardinality(UnknownRows) = 2
    /\ Cardinality(NamedAtLeast(1)) >= 10
    /\ \E i \in Rows(out) : out[i].installer = "other"

Code(label) ==
    IF label = "functional" THEN 2
    ELSE IF label = "functional needs repair" THEN 1
    ELSE 0

\* C8: preprocess_y returns one code per row, in row order, functional 2,
\* non functional 0, functional needs repair 1, and rows with different
\* labels get different codes.
C8_LabelsEncoded ==
    pc = "preprocess_y" =>
        /\ Len(y) = Len(df)
        /\ \A i \in Rows(df) : y[i] = Code(df[i].status_group)
        /\ \A i, j \in Rows(df) :
              df[i].status_group # df[j].status_group => y[i] # y[j]

\* preprocess_y returned for a frame that holds the three labels.
C8_Witness ==
    /\ pc = "preprocess_y"
    /\ {df[i].status_group : i \in Rows(df)} =
          {"functional", "non functional", "functional needs repair"}
    /\ {y[i] : i \in Rows(df)} = {0, 1, 2}

\* The orders in which the rows of a frame of n rows can be given.
Orders(n) == {f \in [1..n -> 1..n] : \A a, b \in 1..n : a # b => f[a] # f[b]}

\* The frame d with its rows in the order f.
Reordered(d, f) == [k \in Rows(d) |-> d[f[k]]]

\* q is the mean of column col over the whole group of row i, as given.
FromGroupMean(q, col, by, i) == IsMeanOver(q, df, col, Group(df, by, i))

\* C9: an imputed longitude, gps_height or population is the mean of the
\* column as it was given over every row of the group, sentinel rows
\* included (for population with the fractional part discarded); a row
\* that holds no sentinel keeps its value; and giving the rows in another
\* order gives every row the same values.
C9_ImputedFromWholeInput ==
    Returned =>
        /\ \A i \in Rows(df) :
              /\ IF df[i].longitude = 0
                 THEN FromGroupMean(out[i].longitude, "longitude", "region_code", i)
                 ELSE out[i].longitude = <<df[i].longitude, 1>>
              /\ IF df[i].gps_height = 0
                 THEN FromGroupMean(out[i].gps_height, "gps_height", "basin", i)
                 ELSE out[i].gps_height = <<df[i].gps_height, 1>>
              /\ IF Sentinel(df[i].population)
                 THEN LET S == Group(df, "basin", i)
                          sum == SetSum(S, Column(df, "population"))
                      IN  /\ out[i].population * Cardinality(S) <= sum
                          /\ sum < (out[i].population + 1) * Cardinality(S)
                 ELSE out[i].population = df[i].population
        /\ \A f \in Orders(Len(df)) :
              LET d == Reordered(df, f)
              IN  /\ longitude(d) = [k \in Rows(df) |-> out[f[k]].longitude]
                  /\ gps_height(d) = [k \in Rows(df) |-> out[f[k]].gps_height]
                  /\ population(d) = [k \in Rows(df) |-> out[f[k]].population]

\* Two sentinel rows of one region were imputed from a region that also
\* holds a measured longitude, and got the same value.
C9_Witness ==
    /\ Returned
    /\ \E i, j, k \in Rows(df) :
          /\ i < j
          /\ df[i].longitude = 0
          /\ df[j].longitude = 0
          /\ df[k].longitude # 0
          /\ df[i].region_code = df[j].region_code
          /\ df[i].region_code = df[k].region_code
          /\ out[i].longitude = out[j].longitude
          /\ out[i].longitude # <<0, 1>>

\* C10: center_distance is the distance from the reference point to the
\* row's latitude and its returned (imputed) longitude; gps_height,
\* population and age are those computed from the frame as it was given.
C10_DistanceFromImputedLongitude ==
    Returned =>
        \A i \in Rows(df) :
           /\ out[i].center_distance =
                 Haversine(df[i].latitude, out[i].longitude, CenterLat, CenterLon)
           /\ out[i].gps_height = gps_height(df)[i]
           /\ out[i].population = population(df)[i]
           /\ ~(IsNaN(age(df)[i]) \/ RatLess(age(df)[i], <<0, 1>>))
                 => out[i].age = age(df)[i]

\* A row with the sentinel longitude got the distance of the region mean,
\* which is not the distance of longitude 0.
C10_Witness ==
    /\ Returned
    /\ \E i \in Rows(df) :
          /\ df[i].longitude = 0
          /\ out[i].longitude # <<0, 1>>
          /\ ~IsNaN(out[i].center_distance)
          /\ out[i].center_distance #
                Haversine(df[i].latitude, <<0, 1>>, CenterLat, CenterLon)

====
